---- MODULE Spec2Model ----
(***************************************************************************)
(* Model of mondaymain.py: the sprint risk summary script.  One run of the *)
(* script fetches the board, filters the sprint group's items, assesses    *)
(* each item (item_risk), highlights items with missing roles, builds the  *)
(* sprint context (build_context) and creates or reuses the summary item,  *)
(* then posts the summary as an update.  The board persists between runs.  *)
(*                                                                         *)
(* Python strings are sequences of one-character strings, so that norm,    *)
(* startswith, "in" and the date conversions are computed, not assumed.    *)
(* None of a string is NoneStr, None of a date is NoDate, None of a column *)
(* id is NoCol.                                                            *)
(***************************************************************************)
EXTENDS Integers, Sequences, FiniteSets, TLC

\* ------------------------------------------------------------------ strings

NoneStr == <<"None">>
NoCol == ""
NoDate == [year |-> 0, month |-> 0, day |-> 0]

UpperChars == <<"A", "B", "C", "D", "E", "F", "G", "H", "I", "J", "K", "L", "M", "N", "O", "P", "Q", "R", "S", "T", "U", "V", "W", "X", "Y", "Z">>
LowerChars == <<"a", "b", "c", "d", "e", "f", "g", "h", "i", "j", "k", "l", "m", "n", "o", "p", "q", "r", "s", "t", "u", "v", "w", "x", "y", "z">>
DigitChars == <<"0", "1", "2", "3", "4", "5", "6", "7", "8", "9">>

IsSpace(c) == c \in {" ", "\t", "\n", "\r"}
IsDigit(c) == \E i \in 1..10 : DigitChars[i] = c
DigitVal(c) == (CHOOSE i \in 1..10 : DigitChars[i] = c) - 1

\* str.lower() on one character
LowerChar(c) ==
  IF \E i \in 1..26 : UpperChars[i] = c
    THEN LowerChars[CHOOSE i \in 1..26 : UpperChars[i] = c]
    ELSE c

lower(s) == [i \in 1..Len(s) |-> LowerChar(s[i])]

RECURSIVE lstrip(_)
lstrip(s) == IF s # <<>> /\ IsSpace(Head(s)) THEN lstrip(Tail(s)) ELSE s

RECURSIVE rstrip(_)
rstrip(s) ==
  IF s # <<>> /\ IsSpace(s[Len(s)]) THEN rstrip(SubSeq(s, 1, Len(s) - 1)) ELSE s

strip(s) == rstrip(lstrip(s))

\* Python truthiness of an Optional[str]
Truthy(s) == s # NoneStr /\ s # <<>>

\* norm(s): (s or "").strip().lower()
norm(s) == lower(strip(IF Truthy(s) THEN s ELSE <<>>))

\* s.startswith(p)
startswith(s, p) == Len(s) >= Len(p) /\ SubSeq(s, 1, Len(p)) = p

\* p in s (substring)
contains(s, p) ==
  \E i \in 0..(Len(s) - Len(p)) : SubSeq(s, i + 1, i + Len(p)) = p

\* s[:n]
Prefix(s, n) == SubSeq(s, 1, IF Len(s) < n THEN Len(s) ELSE n)

\* str(n) / f"{n}" for a natural number
RECURSIVE Dec(_)
Dec(n) == IF n < 10 THEN <<DigitChars[n + 1]>> ELSE Dec(n \div 10) \o <<DigitChars[(n % 10) + 1]>>

\* zero-padded decimal of width w (strftime / isoformat fields)
RECURSIVE ZPad(_, _)
ZPad(s, w) == IF Len(s) >= w THEN s ELSE ZPad(<<"0">> \o s, w)

\* int of a sequence of digit characters
RECURSIVE IntOf(_)
IntOf(s) == IF s = <<>> THEN 0 ELSE 10 * IntOf(SubSeq(s, 1, Len(s) - 1)) + DigitVal(s[Len(s)])

\* --------------------------------------------------------- program constants

DONE_STATUS_ALIASES == {<<"d", "o", "n", "e">>, <<"c", "o", "m", "p", "l", "e", "t", "e">>, <<"r", "e", "l", "e", "a", "s", "e", "d">>}
BLOCKED_ALIASES == {<<"b", "l", "o", "c", "k", "e", "d">>, <<"s", "t", "u", "c", "k">>}

S_sprint_summary == <<"s", "p", "r", "i", "n", "t", " ", "s", "u", "m", "m", "a", "r", "y">>
S_Sprint_Summary_dash == <<"S", "p", "r", "i", "n", "t", " ", "S", "u", "m", "m", "a", "r", "y", " ", "-", " ">>
S_sprint_ == <<"s", "p", "r", "i", "n", "t", " ">>
S_high == <<"h", "i", "g", "h">>

R_blocked == "blocked/stuck in one or more tracks"
R_missing_po == "missing Product owner"
R_missing_designer == "missing Designer"
R_missing_developer == "missing Developer"
R_overdue == "timeline end passed"
R_near_due == "near due (<=3 days) and not done"
R_high_near_due == "high priority near due and not done"

\* the keys of COLUMN_TITLE_MAP with their (lower-case) title aliases
COLUMN_TITLE_MAP ==
  [PRODUCT_STATUS |-> {<<"p", "r", "o", "d", "u", "c", "t", " ", "s", "t", "a", "t", "u", "s">>},
   DESIGN_STATUS |-> {<<"d", "e", "s", "i", "g", "n", " ", "s", "t", "a", "t", "u", "s">>},
   DEV_STATUS |-> {<<"d", "e", "v", " ", "s", "t", "a", "t", "u", "s">>},
   PRIORITY |-> {<<"p", "r", "i", "o", "r", "i", "t", "y">>},
   PRODUCT_OWNER |-> {<<"p", "r", "o", "d", "u", "c", "t", " ", "o", "w", "n", "e", "r">>},
   DESIGNER |-> {<<"d", "e", "s", "i", "g", "n", "e", "r">>},
   DEVELOPER |-> {<<"d", "e", "v", "e", "l", "o", "p", "e", "r">>},
   TIMELINE |-> {<<"t", "i", "m", "e", "l", "i", "n", "e">>},
   PROGRESS |-> {<<"p", "r", "o", "g", "r", "e", "s", "s">>},
   USE_CASE |-> {<<"u", "s", "e", " ", "c", "a", "s", "e">>},
   VERTICAL |-> {<<"v", "e", "r", "t", "i", "c", "a", "l">>},
   RISK_HIGHLIGHT |-> {<<"r", "i", "s", "k", " ", "h", "i", "g", "h", "l", "i", "g", "h", "t">>, <<"r", "i", "s", "k", " ", "s", "t", "a", "t", "u", "s">>, <<"d", "a", "t", "a", " ", "q", "u", "a", "l", "i", "t", "y">>}]

NearDueDays == 3
TopRisksLimit == 10

\* -------------------------------------------------------------------- dates

\* datetime.date(year, month, day) as a record; Python orders dates by
\* (year, month, day)
Date(y, m, d) == [year |-> y, month |-> m, day |-> d]

IsLeap(y) == (y % 4 = 0) /\ ((y % 100 # 0) \/ (y % 400 = 0))

DaysInMonth(y, m) ==
  IF m = 2 THEN (IF IsLeap(y) THEN 29 ELSE 28)
  ELSE IF m \in {4, 6, 9, 11} THEN 30 ELSE 31

RECURSIVE DaysBeforeMonth(_, _)
DaysBeforeMonth(y, m) ==
  IF m <= 1 THEN 0 ELSE DaysBeforeMonth(y, m - 1) + DaysInMonth(y, m - 1)

\* date.toordinal()
toordinal(dt) ==
  LET y == dt.year - 1
  IN  y * 365 + (y \div 4) - (y \div 100) + (y \div 400)
        + DaysBeforeMonth(dt.year, dt.month) + dt.day

\* a < b on dates
DateLT(a, b) ==
  \/ a.year < b.year
  \/ a.year = b.year /\ a.month < b.month
  \/ a.year = b.year /\ a.month = b.month /\ a.day < b.day

\* (a - b).days
DaysBetween(a, b) == toordinal(a) - toordinal(b)

\* date.isoformat(), equal to strftime("%Y-%m-%d") for years 1000..9999
isoformat(dt) ==
  ZPad(Dec(dt.year), 4) \o <<"-">> \o ZPad(Dec(dt.month), 2) \o <<"-">> \o ZPad(Dec(dt.day), 2)

\* the %m field of strptime: 1[0-2] | 0[1-9] | [1-9]
MonthToken(s) ==
  \/ Len(s) = 1 /\ IsDigit(s[1]) /\ s[1] # "0"
  \/ Len(s) = 2 /\ s[1] = "1" /\ s[2] \in {"0", "1", "2"}
  \/ Len(s) = 2 /\ s[1] = "0" /\ IsDigit(s[2]) /\ s[2] # "0"

\* the %d field of strptime: 3[01] | [12]\d | 0[1-9] | [1-9] | " "[1-9]
DayToken(s) ==
  \/ Len(s) = 1 /\ IsDigit(s[1]) /\ s[1] # "0"
  \/ Len(s) = 2 /\ s[1] = "3" /\ s[2] \in {"0", "1"}
  \/ Len(s) = 2 /\ s[1] \in {"1", "2"} /\ IsDigit(s[2])
  \/ Len(s) = 2 /\ s[1] \in {"0", " "} /\ IsDigit(s[2]) /\ s[2] # "0"

\* the place of the second "-" of s when the month field has one or two characters
SecondDash(s) == {q \in {7, 8} : q < Len(s) /\ s[q] = "-" /\ \A r \in 6..(q - 1) : s[r] # "-"}

\* datetime.strptime(s, "%Y-%m-%d").date(); NoDate stands for ValueError
strptime_ymd(s) ==
  IF /\ Len(s) >= 8
     /\ \A i \in 1..4 : IsDigit(s[i])
     /\ s[5] = "-"
     /\ SecondDash(s) # {}
  THEN LET p == CHOOSE q \in SecondDash(s) : TRUE
           ms == SubSeq(s, 6, p - 1)
           ds == SubSeq(s, p + 1, Len(s))
       IN  IF MonthToken(ms) /\ DayToken(ds)
           THEN LET y == IntOf(SubSeq(s, 1, 4))
                    m == IntOf(ms)
                    d == IntOf(lstrip(ds))
                IN  IF y >= 1 /\ d <= DaysInMonth(y, m) THEN Date(y, m, d) ELSE NoDate
           ELSE NoDate
  ELSE NoDate

\* parse_date_text(text)
parse_date_text(text) ==
  IF ~Truthy(text) THEN NoDate ELSE strptime_ymd(Prefix(text, 10))


\* ------------------------------------------------------------ JSON payloads
\* A column value is the JSON text monday returns; it is modelled by what
\* json.loads makes of it: kind "none" (None or ""), "invalid" (not JSON),
\* "nondict" (JSON, not an object) or "dict".
\* A member of a timeline object is [t, s, n]: t is "absent", "null", "str"
\* (the string s) or "num" (the number n).

JAbsent == [t |-> "absent", s |-> <<>>, n |-> 0]
JNull == [t |-> "null", s |-> <<>>, n |-> 0]
JStr(s) == [t |-> "str", s |-> s, n |-> 0]
JNum(n) == [t |-> "num", s |-> <<>>, n |-> n]

\* Python truthiness of a JSON member (v.get(key))
JTruthy(v) == (v.t = "str" /\ v.s # <<>>) \/ (v.t = "num" /\ v.n # 0)

\* a or b or c
Or3(a, b, c) == IF JTruthy(a) THEN a ELSE IF JTruthy(b) THEN b ELSE c

NoValue == [kind |-> "none"]
InvalidJson == [kind |-> "invalid"]
NonDictJson == [kind |-> "nondict"]

\* does datetime.strptime(x[:10], "%Y-%m-%d") raise for the truthy member x
BoundRaises(x) == x.t # "str" \/ strptime_ymd(Prefix(x.s, 10)) = NoDate

\* parse_timeline_value(value_json) -> <<start, end>>
parse_timeline_value(v) ==
  IF v.kind # "dict" THEN <<NoDate, NoDate>>
  ELSE LET sd == Or3(v.from, v.startDate, v.start_date)
           ed == Or3(v.to, v.endDate, v.end_date)
       IN  IF (JTruthy(sd) /\ BoundRaises(sd)) \/ (JTruthy(ed) /\ BoundRaises(ed))
           THEN <<NoDate, NoDate>>
           ELSE << IF JTruthy(sd) THEN strptime_ymd(Prefix(sd.s, 10)) ELSE NoDate,
                   IF JTruthy(ed) THEN strptime_ymd(Prefix(ed.s, 10)) ELSE NoDate >>

\* A people object has members personsAndTeams and personsAndTeamsV2, each
\* [present, list]; a person is [isdict, id], id = -1 when it has none.
NoList == [present |-> FALSE, list |-> <<>>]
JList(l) == [present |-> TRUE, list |-> l]

ListOr(a, b) == IF a.present /\ a.list # <<>> THEN a.list
                ELSE IF b.present /\ b.list # <<>> THEN b.list ELSE <<>>

RECURSIVE PersonIds(_)
PersonIds(arr) ==
  IF arr = <<>> THEN <<>>
  ELSE (IF Head(arr).id # -1 THEN <<Dec(Head(arr).id)>> ELSE <<>>) \o PersonIds(Tail(arr))

\* parse_people(value_json)
parse_people(v) ==
  IF v.kind # "dict" THEN <<>>
  ELSE LET arr == ListOr(v.personsAndTeams, v.personsAndTeamsV2)
       IN  IF \E i \in 1..Len(arr) : ~arr[i].isdict THEN <<>> ELSE PersonIds(arr)


\* ------------------------------------------------------- column resolution

\* find_column_id_by_titles(columns, title_list); wanted holds the lower-cased titles
RECURSIVE find_column_id_by_titles(_, _)
find_column_id_by_titles(columns, wanted) ==
  IF columns = <<>> THEN NoCol
  ELSE IF norm(Head(columns).title) \in wanted THEN Head(columns).id
  ELSE find_column_id_by_titles(Tail(columns), wanted)

\* map_board_columns(columns)
map_board_columns(columns) ==
  [key \in DOMAIN COLUMN_TITLE_MAP |-> find_column_id_by_titles(columns, COLUMN_TITLE_MAP[key])]

\* --------------------------------------------------------- risk assessment
\* An item is [id, name, group, column_values]; column_values maps a column
\* id to its cell [text, value], as cv_lookup builds it.

cv_lookup(item) == item.column_values

\* cv.get(col_id, {}).get("text")
CellText(cv, col_id) == IF col_id \in DOMAIN cv THEN cv[col_id].text ELSE NoneStr

\* cv.get(col_id, {}).get("value")
CellValue(cv, col_id) == IF col_id \in DOMAIN cv THEN cv[col_id].value ELSE NoValue

\* status_norm(cv, col_id)
status_norm(cv, col_id) == norm(IF col_id # NoCol THEN CellText(cv, col_id) ELSE <<>>)

\* cv.get(COL, {}).get("value") if COL else ""
ValueIf(cv, col_id) == IF col_id # NoCol THEN CellValue(cv, col_id) ELSE NoValue

\* any(s in BLOCKED_ALIASES for s in track_statuses)
AnyBlocked(ts) == \E i \in 1..Len(ts) : ts[i] \in BLOCKED_ALIASES

\* not any(s in DONE_STATUS_ALIASES for s in track_statuses)
NotAnyDone(ts) == ~ \E i \in 1..Len(ts) : ts[i] \in DONE_STATUS_ALIASES

BlockedReason(ts) == IF AnyBlocked(ts) THEN <<R_blocked>> ELSE <<>>

\* the missing-role test without the "COL_ID and" guard
MissingReason_NoGuard(col_id, ids, reason) == IF ids = <<>> THEN <<reason>> ELSE <<>>

\* if COL_ID and not ids: reasons.append("missing <role>")
MissingReason(col_id, ids, reason) ==
  IF col_id # NoCol /\ ids = <<>> THEN <<reason>> ELSE <<>>

OverdueReason(tl_end, tdy, ts) ==
  IF tl_end # NoDate /\ DateLT(tl_end, tdy) /\ NotAnyDone(ts) THEN <<R_overdue>> ELSE <<>>

NearDueReason(tl_end, tdy, ts) ==
  IF tl_end # NoDate /\ DaysBetween(tl_end, tdy) <= NearDueDays /\ NotAnyDone(ts)
    THEN <<R_near_due>> ELSE <<>>

HighNearDueReason(priority_text, tl_end, tdy, ts) ==
  IF /\ contains(priority_text, S_high)
     /\ tl_end # NoDate
     /\ DaysBetween(tl_end, tdy) <= NearDueDays
     /\ NotAnyDone(ts)
    THEN <<R_high_near_due>> ELSE <<>>

\* the timeline checks placed before the missing-role checks
item_reasons_Reordered(cols, ts, po_ids, designer_ids, developer_ids, priority_text, tl_end, tdy) ==
  BlockedReason(ts)
    \o OverdueReason(tl_end, tdy, ts)
    \o NearDueReason(tl_end, tdy, ts)
    \o MissingReason(cols.PRODUCT_OWNER, po_ids, R_missing_po)
    \o MissingReason(cols.DESIGNER, designer_ids, R_missing_designer)
    \o MissingReason(cols.DEVELOPER, developer_ids, R_missing_developer)
    \o HighNearDueReason(priority_text, tl_end, tdy, ts)

\* the reasons list in the order item_risk appends to it
item_reasons(cols, ts, po_ids, designer_ids, developer_ids, priority_text, tl_end, tdy) ==
  BlockedReason(ts)
    \o MissingReason(cols.PRODUCT_OWNER, po_ids, R_missing_po)
    \o MissingReason(cols.DESIGNER, designer_ids, R_missing_designer)
    \o MissingReason(cols.DEVELOPER, developer_ids, R_missing_developer)
    \o OverdueReason(tl_end, tdy, ts)
    \o NearDueReason(tl_end, tdy, ts)
    \o HighNearDueReason(priority_text, tl_end, tdy, ts)

\* risky computed as len(reasons) > 1
RiskyOf_OffByOne(reasons) == Len(reasons) > 1

\* risky = len(reasons) > 0
RiskyOf(reasons) == Len(reasons) > 0

\* item_risk(item), with the globals it reads as parameters
item_risk(item, cols, tdy) ==
  LET cv == cv_lookup(item)
      product_status == status_norm(cv, cols.PRODUCT_STATUS)
      design_status == status_norm(cv, cols.DESIGN_STATUS)
      dev_status == status_norm(cv, cols.DEV_STATUS)
      po_ids == parse_people(ValueIf(cv, cols.PRODUCT_OWNER))
      designer_ids == parse_people(ValueIf(cv, cols.DESIGNER))
      developer_ids == parse_people(ValueIf(cv, cols.DEVELOPER))
      priority_text == status_norm(cv, cols.PRIORITY)
      tl_end == parse_timeline_value(ValueIf(cv, cols.TIMELINE))[2]
      reasons == item_reasons(cols, <<product_status, design_status, dev_status>>,
                              po_ids, designer_ids, developer_ids, priority_text, tl_end, tdy)
  IN  [id |-> item.id,
       name |-> item.name,
       product_status |-> product_status,
       design_status |-> design_status,
       dev_status |-> dev_status,
       priority |-> priority_text,
       timeline_end |-> IF tl_end # NoDate THEN isoformat(tl_end) ELSE <<>>,
       reasons |-> reasons,
       risky |-> RiskyOf(reasons)]

\* assessed = [item_risk(i) for i in sprint_items]
AssessAll(items, cols, tdy) == [i \in 1..Len(items) |-> item_risk(items[i], cols, tdy)]

\* risks = [r for r in assessed if r["risky"]]
RisksOf(assessed_list) == SelectSeq(assessed_list, LAMBDA r : r.risky)


\* ------------------------------------------------------------ build_context

\* present = [s for s in statuses if s]
PresentStatuses(r) ==
  SelectSeq(<<r.product_status, r.design_status, r.dev_status>>, LAMBDA s : s # <<>>)

\* done_all without the "if not present: return False" test
done_all_NoEmptyTest(r) ==
  \A i \in 1..Len(PresentStatuses(r)) : PresentStatuses(r)[i] \in DONE_STATUS_ALIASES

\* build_context.done_all(r)
done_all(r) ==
  LET present == PresentStatuses(r)
  IN  IF present = <<>> THEN FALSE
      ELSE \A i \in 1..Len(present) : present[i] \in DONE_STATUS_ALIASES

ItemBlocked(r) ==
  \E s \in {r.product_status, r.design_status, r.dev_status} : s \in BLOCKED_ALIASES

ItemHighPriority(r) == contains(r.priority, S_high)

\* tl_dates = [parse_date_text(r["timeline_end"]) for r in items_assessed if r["timeline_end"]]
RECURSIVE TlDates(_)
TlDates(items_assessed) ==
  IF items_assessed = <<>> THEN <<>>
  ELSE (IF Head(items_assessed).timeline_end # <<>>
          THEN <<parse_date_text(Head(items_assessed).timeline_end)>> ELSE <<>>)
       \o TlDates(Tail(items_assessed))

\* max(tl_dates) if tl_dates else None.  Every timeline_end is an isoformat
\* text, so no element is None.
RECURSIVE MaxDate(_)
MaxDate(dates) ==
  IF dates = <<>> THEN NoDate
  ELSE LET rest == MaxDate(Tail(dates))
       IN  IF rest # NoDate /\ DateLT(Head(dates), rest) THEN rest ELSE Head(dates)

SprintEnd(items_assessed) == MaxDate(TlDates(items_assessed))

\* one late_items entry
LateEntry(r) ==
  [id |-> r.id, name |-> r.name, timeline_end |-> r.timeline_end,
   product_status |-> r.product_status, design_status |-> r.design_status,
   dev_status |-> r.dev_status]

\* the late_items test without "and not done_all(r)"
IsLate_IgnoresDone(r, tdy) ==
  /\ r.timeline_end # <<>>
  /\ parse_date_text(r.timeline_end) # NoDate
  /\ DateLT(parse_date_text(r.timeline_end), tdy)

\* the test of the late_items loop for one assessed item
IsLate(r, tdy) ==
  /\ r.timeline_end # <<>>
  /\ parse_date_text(r.timeline_end) # NoDate
  /\ DateLT(parse_date_text(r.timeline_end), tdy)
  /\ ~done_all(r)

\* the late_items loop
RECURSIVE LateItems(_, _)
LateItems(items_assessed, tdy) ==
  IF items_assessed = <<>> THEN <<>>
  ELSE (IF IsLate(Head(items_assessed), tdy) THEN <<LateEntry(Head(items_assessed))>> ELSE <<>>)
       \o LateItems(Tail(items_assessed), tdy)

\* the status with "today <= sprint_end" for ongoing
TimelineStatus_Inclusive(sprint_end, tdy, done_items, total_items) ==
  IF sprint_end = NoDate THEN "unknown"
  ELSE IF ~DateLT(sprint_end, tdy) THEN "ongoing"
  ELSE IF done_items = total_items /\ total_items > 0 THEN "met"
  ELSE "missed"

\* sprint_timeline_status
TimelineStatus(sprint_end, tdy, done_items, total_items) ==
  IF sprint_end = NoDate THEN "unknown"
  ELSE IF DateLT(tdy, sprint_end) THEN "ongoing"
  ELSE IF done_items = total_items /\ total_items > 0 THEN "met"
  ELSE "missed"

\* top_risks without the [:10] slice
TopRisks_Untruncated(risks_list) == risks_list

\* risks_list[:10]
TopRisks(risks_list) ==
  SubSeq(risks_list, 1, IF Len(risks_list) < TopRisksLimit THEN Len(risks_list) ELSE TopRisksLimit)

\* build_context(items_assessed, risks_list), with the globals it reads as parameters
build_context(items_assessed, risks_list, tdy, group_title) ==
  LET total_items == Len(items_assessed)
      done_items == Len(SelectSeq(items_assessed, done_all))
      blocked_items == Len(SelectSeq(items_assessed, ItemBlocked))
      high_priority == Len(SelectSeq(items_assessed, ItemHighPriority))
      sprint_end == SprintEnd(items_assessed)
  IN  [sprint_group |-> group_title,
       stats |-> [total_items |-> total_items,
                  risky_items |-> Len(risks_list),
                  done_items |-> done_items,
                  blocked_items |-> blocked_items,
                  high_priority |-> high_priority],
       top_risks |-> TopRisks(risks_list),
       timeline |-> [sprint_end |-> IF sprint_end # NoDate THEN isoformat(sprint_end) ELSE <<>>,
                     status |-> TimelineStatus(sprint_end, tdy, done_items, total_items),
                     late_items |-> LateItems(items_assessed, tdy)]]


\* ------------------------------------------------------------------- state

VARIABLES
  board,            \* the monday board: [groups, columns, items]
  updates,          \* item ids of the updates posted so far (create_update)
  created,          \* number of create_item mutations so far
  run,              \* number of the current run of the script
  pc,               \* position of the current run
  sprint_group,     \* the selected group [id, title]
  column_ids,       \* map_board_columns(columns)
  items_all,        \* the fetched items
  sprint_items,     \* the items of the sprint group, summary rows excluded
  today,            \* date.today()
  assessed,         \* [item_risk(i) for i in sprint_items]
  risks,            \* the risky assessments
  context,          \* build_context(assessed, risks)
  summary_item_id   \* the item the summary is posted to

vars == <<board, updates, created, run, pc, sprint_group, column_ids, items_all,
          sprint_items, today, assessed, risks, context, summary_item_id>>

NoGroup == [id |-> "", title |-> <<>>]
NoColumnIds == [key \in DOMAIN COLUMN_TITLE_MAP |-> NoCol]
NoContext ==
  [sprint_group |-> <<>>,
   stats |-> [total_items |-> 0, risky_items |-> 0, done_items |-> 0,
              blocked_items |-> 0, high_priority |-> 0],
   top_risks |-> <<>>,
   timeline |-> [sprint_end |-> <<>>, status |-> "", late_items |-> <<>>]]
NoItemId == 0

\* the state of a run before its first statement
FreshRun ==
  /\ pc = "start"
  /\ sprint_group = NoGroup
  /\ column_ids = NoColumnIds
  /\ items_all = <<>>
  /\ sprint_items = <<>>
  /\ assessed = <<>>
  /\ risks = <<>>
  /\ context = NoContext
  /\ summary_item_id = NoItemId

\* ----------------------------------------------------------------- actions

\* an uncaught exception ends the process: nothing of the run is left
Abort ==
  /\ pc' = "failed"
  /\ sprint_group' = NoGroup
  /\ column_ids' = NoColumnIds
  /\ items_all' = <<>>
  /\ sprint_items' = <<>>
  /\ assessed' = <<>>
  /\ risks' = <<>>
  /\ context' = NoContext
  /\ summary_item_id' = NoItemId

\* the first group whose normalized title starts with "sprint <n>" (lines 177-184)
RECURSIVE FindSprintGroup(_, _)
FindSprintGroup(groups, n) ==
  IF groups = <<>> THEN NoGroup
  ELSE IF startswith(norm(Head(groups).title), S_sprint_ \o Dec(n)) THEN Head(groups)
  ELSE FindSprintGroup(Tail(groups), n)

IsSummaryName(name) == startswith(norm(name), S_sprint_summary)

\* sprint_items (lines 224-228)
SprintItemsOf(items, group_id) ==
  SelectSeq(items, LAMBDA i : i.group = group_id /\ ~IsSummaryName(i.name))

\* existing_summary_items matching the name exactly instead of by prefix
ExistingSummaryItems_ExactName(items, group_id) ==
  SelectSeq(items, LAMBDA i : i.group = group_id /\ norm(i.name) = S_sprint_summary)

\* existing_summary_items (lines 536-540)
ExistingSummaryItems(items, group_id) ==
  SelectSeq(items, LAMBDA i : i.group = group_id /\ IsSummaryName(i.name))

\* Sections 1 and 2: ask the sprint number n, fetch the board, pick the group,
\* resolve the columns, keep the sprint group's items.
Fetch(n) ==
  /\ pc = "start"
  /\ LET g == FindSprintGroup(board.groups, n)
         its == SprintItemsOf(board.items, g.id)
     IN  IF g = NoGroup \/ its = <<>>
         THEN /\ pc' = "failed"
              /\ UNCHANGED <<sprint_group, column_ids, items_all, sprint_items>>
         ELSE /\ pc' = "fetched"
              /\ sprint_group' = g
              /\ column_ids' = map_board_columns(board.columns)
              /\ items_all' = board.items
              /\ sprint_items' = its
  /\ UNCHANGED <<board, updates, created, run, today, assessed, risks, context, summary_item_id>>

\* Section 3: today = date.today() (t, never before an earlier run's today),
\* assessed and risks.
Assess(t) ==
  /\ pc = "fetched"
  /\ today = NoDate \/ ~DateLT(t, today)
  /\ today' = t
  /\ assessed' = AssessAll(sprint_items, column_ids, t)
  /\ risks' = RisksOf(assessed')
  /\ pc' = "assessed"
  /\ UNCHANGED <<board, updates, created, run, sprint_group, column_ids, items_all,
                 sprint_items, context, summary_item_id>>


\* "missing" in reason.lower(), on the seven reasons item_risk can append
IsMissingReason(reason) == reason \in {R_missing_po, R_missing_designer, R_missing_developer}

\* the ids of the items apply_missing_field_highlights changes, in order
RECURSIVE MissingItemIds(_)
MissingItemIds(items_assessed) ==
  IF items_assessed = <<>> THEN <<>>
  ELSE (IF \E j \in 1..Len(Head(items_assessed).reasons) :
              IsMissingReason(Head(items_assessed).reasons[j])
          THEN <<Head(items_assessed).id>> ELSE <<>>)
       \o MissingItemIds(Tail(items_assessed))

\* the cell change_column_value leaves: {"label": "Missing fields"}
HighlightCell == [text |-> <<"M", "i", "s", "s", "i", "n", "g", " ", "f", "i", "e", "l", "d", "s">>, value |-> [kind |-> "status"]]

\* the board's items after change_column_value on the items ids[1..k]
HighlightItems(items, ids, k, col_id) ==
  [i \in 1..Len(items) |->
     IF \E j \in 1..k : ids[j] = items[i].id
       THEN [items[i] EXCEPT !.column_values[col_id] = HighlightCell]
       ELSE items[i]]

\* Section 3b: apply_missing_field_highlights(assessed), every mutation succeeding
Highlight ==
  /\ pc = "assessed"
  /\ pc' = "highlighted"
  /\ LET ids == MissingItemIds(assessed)
     IN  board' = IF column_ids.RISK_HIGHLIGHT = NoCol THEN board
                  ELSE [board EXCEPT !.items =
                          HighlightItems(board.items, ids, Len(ids), column_ids.RISK_HIGHLIGHT)]
  /\ UNCHANGED <<updates, created, run, sprint_group, column_ids, items_all, sprint_items,
                 today, assessed, risks, context, summary_item_id>>

\* Section 3b when gql raises on the k-th mutation: the script stops there
HighlightError(k) ==
  /\ pc = "assessed"
  /\ column_ids.RISK_HIGHLIGHT # NoCol
  /\ k \in 1..Len(MissingItemIds(assessed))
  /\ board' = [board EXCEPT !.items =
                 HighlightItems(board.items, MissingItemIds(assessed), k - 1,
                                column_ids.RISK_HIGHLIGHT)]
  /\ Abort
  /\ UNCHANGED <<updates, created, run, today>>

\* Section 4: context = build_context(assessed, risks)
BuildContext ==
  /\ pc = "highlighted"
  /\ context' = build_context(assessed, risks, today, sprint_group.title)
  /\ pc' = "context"
  /\ UNCHANGED <<board, updates, created, run, sprint_group, column_ids, items_all,
                 sprint_items, today, assessed, risks, summary_item_id>>

\* summary_item_name = f"Sprint Summary - {datetime.now().strftime('%Y-%m-%d')}"
SummaryItemName(tdy) == S_Sprint_Summary_dash \o isoformat(tdy)

\* the item create_item adds to the group: a fresh id, every cell empty
NewItem(b, group_id, name) ==
  [id |-> Len(b.items) + 1,
   name |-> name,
   group |-> group_id,
   column_values |-> [c \in {b.columns[i].id : i \in 1..Len(b.columns)} |->
                        [text |-> NoneStr, value |-> NoValue]]]

\* the board's items after the item with the given id is renamed
RenameItem(items, item_id, name) ==
  [i \in 1..Len(items) |-> IF items[i].id = item_id THEN [items[i] EXCEPT !.name = name]
                           ELSE items[i]]

\* Section 6, first half: rename the first existing summary item of the
\* group, or create the summary item.
CreateOrReuse ==
  /\ pc = "context"
  /\ LET existing == ExistingSummaryItems(items_all, sprint_group.id)
         name == SummaryItemName(today)
     IN  IF existing # <<>>
         THEN /\ summary_item_id' = existing[1].id
              /\ board' = [board EXCEPT !.items = RenameItem(board.items, existing[1].id, name)]
              /\ created' = created
         ELSE /\ summary_item_id' = NewItem(board, sprint_group.id, name).id
              /\ board' = [board EXCEPT !.items =
                             Append(board.items, NewItem(board, sprint_group.id, name))]
              /\ created' = created + 1
  /\ pc' = "summary_item"
  /\ UNCHANGED <<updates, run, sprint_group, column_ids, items_all, sprint_items, today,
                 assessed, risks, context>>

\* Section 6, second half: create_update on the summary item; the script ends
PostUpdate ==
  /\ pc = "summary_item"
  /\ updates' = Append(updates, summary_item_id)
  /\ pc' = "done"
  /\ UNCHANGED <<board, created, run, sprint_group, column_ids, items_all, sprint_items,
                 today, assessed, risks, context, summary_item_id>>

\* gql raises RuntimeError (lines 56-57) on the board query, on the rename or
\* create mutation, or on create_update: the script stops, nothing is written
GqlError ==
  /\ pc \in {"start", "context", "summary_item"}
  /\ Abort
  /\ UNCHANGED <<board, updates, created, run, today>>

MaxRuns == 2

\* the script is started again on the same board
NextRun ==
  /\ pc \in {"done", "failed"}
  /\ run < MaxRuns
  /\ run' = run + 1
  /\ pc' = "start"
  /\ sprint_group' = NoGroup
  /\ column_ids' = NoColumnIds
  /\ items_all' = <<>>
  /\ sprint_items' = <<>>
  /\ assessed' = <<>>
  /\ risks' = <<>>
  /\ context' = NoContext
  /\ summary_item_id' = NoItemId
  /\ UNCHANGED <<board, updates, created, today>>


\* ------------------------------------------------------------------ inputs
\* The boards, items and dates the runs are checked on.

Col(id, title) == [id |-> id, title |-> title]

ColsFull ==
  << Col("c_name", <<"N", "a", "m", "e">>),
     Col("c_ps", <<"P", "r", "o", "d", "u", "c", "t", " ", "S", "t", "a", "t", "u", "s">>),
     Col("c_ds", <<"D", "e", "s", "i", "g", "n", " ", "s", "t", "a", "t", "u", "s">>),
     Col("c_vs", <<"D", "e", "v", " ", "S", "t", "a", "t", "u", "s">>),
     Col("c_pr", <<" ", "P", "R", "I", "O", "R", "I", "T", "Y", " ">>),
     Col("c_po", <<"P", "r", "o", "d", "u", "c", "t", " ", "O", "w", "n", "e", "r">>),
     Col("c_de", <<"D", "e", "s", "i", "g", "n", "e", "r">>),
     Col("c_dv", <<"D", "e", "v", "e", "l", "o", "p", "e", "r">>),
     Col("c_tl", <<"T", "i", "m", "e", "l", "i", "n", "e">>),
     Col("c_rh", <<"D", "a", "t", "a", " ", "Q", "u", "a", "l", "i", "t", "y">>) >>

\* a board that tracks no designer and has no highlight column
ColsNoDesigner == SelectSeq(ColsFull, LAMBDA c : c.id \notin {"c_de", "c_rh"})

\* a board that tracks only the dev track, its developer and the highlight column
ColsDevOnly == SelectSeq(ColsFull, LAMBDA c : c.id \in {"c_name", "c_vs", "c_dv", "c_rh"})

Groups ==
  << [id |-> "g_backlog", title |-> <<"B", "a", "c", "k", "l", "o", "g">>],
     [id |-> "g_s4", title |-> <<" ", "S", "p", "r", "i", "n", "t", " ", "4", " ", "-", " ", "N", "o", "v">>],
     [id |-> "g_s40", title |-> <<"S", "p", "r", "i", "n", "t", " ", "4", "0">>] >>

SprintNums == {4, 5}

D_1115 == Date(2025, 11, 15)
D_1120 == Date(2025, 11, 20)
D_1122 == Date(2025, 11, 22)
D_1202 == Date(2025, 12, 2)
D_1205 == Date(2025, 12, 5)

Todays == {D_1120, D_1122, D_1202}

T_none == NoneStr
T_Done == <<"D", "o", "n", "e">>
T_Stuck == <<" ", "S", "t", "u", "c", "k", " ">>
T_Working == <<"W", "o", "r", "k", "i", "n", "g", " ", "o", "n", " ", "i", "t">>
T_Released == <<"R", "E", "L", "E", "A", "S", "E", "D">>
T_High == <<"H", "i", "g", "h">>
T_Low == <<"L", "o", "w">>

StatusTexts == {T_none, T_Done, T_Stuck, T_Working}

\* timeline payloads
TlDict(from, startDate, start_date, to, endDate, end_date) ==
  [kind |-> "dict", from |-> from, startDate |-> startDate, start_date |-> start_date,
   to |-> to, endDate |-> endDate, end_date |-> end_date]

\* {"from": "2025-11-03", "to": <d>}
TlTo(d) == TlDict(JStr(<<"2", "0", "2", "5", "-", "1", "1", "-", "0", "3">>), JAbsent, JAbsent, JStr(isoformat(d)), JAbsent, JAbsent)

TimelinePayloads ==
  { NoValue, InvalidJson, NonDictJson,
    TlTo(D_1115),
    \* {"startDate": "2025-11-03", "endDate": "2025-11-15T00:00:00"}
    TlDict(JAbsent, JStr(<<"2", "0", "2", "5", "-", "1", "1", "-", "0", "3">>), JAbsent, JAbsent, JStr(<<"2", "0", "2", "5", "-", "1", "1", "-", "1", "5", "T", "0", "0", ":", "0", "0", ":", "0", "0">>), JAbsent),
    \* {"to": "", "end_date": "2025-11-15"}
    TlDict(JAbsent, JAbsent, JAbsent, JStr(<<>>), JNull, JStr(<<"2", "0", "2", "5", "-", "1", "1", "-", "1", "5">>)),
    \* {"from": "2025-11-03"}
    TlDict(JStr(<<"2", "0", "2", "5", "-", "1", "1", "-", "0", "3">>), JAbsent, JAbsent, JAbsent, JAbsent, JAbsent),
    \* {"from": "", "to": "2025-11-15"}
    TlDict(JStr(<<>>), JAbsent, JAbsent, JStr(<<"2", "0", "2", "5", "-", "1", "1", "-", "1", "5">>), JAbsent, JAbsent),
    \* {"from": "03/11/2025", "to": "2025-11-15"}
    TlDict(JStr(<<"0", "3", "/", "1", "1", "/", "2", "0", "2", "5">>), JAbsent, JAbsent, JStr(<<"2", "0", "2", "5", "-", "1", "1", "-", "1", "5">>), JAbsent, JAbsent),
    \* {"from": 1762128000, "to": "2025-11-15"}
    TlDict(JNum(1762128000), JAbsent, JAbsent, JStr(<<"2", "0", "2", "5", "-", "1", "1", "-", "1", "5">>), JAbsent, JAbsent),
    \* {"from": "2025-11-03", "to": "2025-11-31"}
    TlDict(JStr(<<"2", "0", "2", "5", "-", "1", "1", "-", "0", "3">>), JAbsent, JAbsent, JStr(<<"2", "0", "2", "5", "-", "1", "1", "-", "3", "1">>), JAbsent, JAbsent),
    \* {"from": "2025-11-03", "to": "2025-1-5"}
    TlDict(JStr(<<"2", "0", "2", "5", "-", "1", "1", "-", "0", "3">>), JAbsent, JAbsent, JStr(<<"2", "0", "2", "5", "-", "1", "-", "5">>), JAbsent, JAbsent),
    \* {"from": "2025-11-03", "to": 20251115}
    TlDict(JStr(<<"2", "0", "2", "5", "-", "1", "1", "-", "0", "3">>), JAbsent, JAbsent, JNum(20251115), JAbsent, JAbsent) }

\* people payloads
PeopleDict(a, b) == [kind |-> "dict", personsAndTeams |-> a, personsAndTeamsV2 |-> b]
Person(id) == [isdict |-> TRUE, id |-> id]

P_none == NoValue
P_one == PeopleDict(JList(<<Person(7)>>), NoList)
P_v2 == PeopleDict(JList(<<>>), JList(<<Person(7), Person(12)>>))
P_empty == PeopleDict(JList(<<>>), NoList)
P_noid == PeopleDict(JList(<<Person(-1)>>), NoList)
P_scalar == PeopleDict(JList(<<Person(7), [isdict |-> FALSE, id |-> -1]>>), NoList)

PeoplePayloads == {P_none, InvalidJson, P_one, P_v2, P_empty, P_noid, P_scalar}

\* a status cell, a people cell, a timeline cell
StatusCell(text) == [text |-> text, value |-> IF Truthy(text) THEN [kind |-> "status"] ELSE NoValue]
ValueCell(v) == [text |-> NoneStr, value |-> v]

\* an item of the board with columns cols
MkItem(cols, id, name, group, ps, ds, vs, pr, po, de, dv, tl) ==
  [id |-> id, name |-> name, group |-> group,
   column_values |->
     [c \in {cols[i].id : i \in 1..Len(cols)} |->
        CASE c = "c_ps" -> StatusCell(ps)
          [] c = "c_ds" -> StatusCell(ds)
          [] c = "c_vs" -> StatusCell(vs)
          [] c = "c_pr" -> StatusCell(pr)
          [] c = "c_po" -> ValueCell(po)
          [] c = "c_de" -> ValueCell(de)
          [] c = "c_dv" -> ValueCell(dv)
          [] c = "c_tl" -> ValueCell(tl)
          [] OTHER -> StatusCell(NoneStr)]]

N_task == <<"C", "h", "e", "c", "k", "o", "u", "t", " ", "f", "l", "o", "w">>

\* one-item boards: every combination of track statuses, priority and timeline end
ItemsByStatus ==
  { MkItem(ColsFull, 1, N_task, "g_s4", ps, ds, vs, pr, po, po, po, tl) :
      ps \in StatusTexts, ds \in StatusTexts, vs \in StatusTexts,
      pr \in {T_none, T_High}, po \in {P_none, P_one},
      tl \in {NoValue, TlTo(D_1115), TlTo(D_1122), TlTo(D_1205)} }

\* one-item boards: every combination of the three roles' payloads
ItemsByPeople(cols) ==
  { MkItem(cols, 1, N_task, "g_s4", T_none, T_none, T_Working, T_Low, po, de, dv, TlTo(D_1205)) :
      po \in PeoplePayloads, de \in {P_none, P_one, P_v2}, dv \in {InvalidJson, P_one} }

\* one-item boards: every timeline payload
ItemsByTimeline ==
  { MkItem(ColsFull, 1, N_task, "g_s4", T_none, ds, T_Released, T_High, P_one, P_one, P_one, tl) :
      ds \in {T_none, T_Working}, tl \in TimelinePayloads }

BoardOf(cols, items) == [groups |-> Groups, columns |-> cols, items |-> items]

ItemBoards ==
  {BoardOf(ColsFull, <<it>>) : it \in ItemsByStatus \cup ItemsByTimeline \cup ItemsByPeople(ColsFull)}
    \cup {BoardOf(ColsNoDesigner, <<it>>) : it \in ItemsByPeople(ColsNoDesigner)}
    \cup {BoardOf(ColsDevOnly, <<it>>) : it \in ItemsByPeople(ColsDevOnly)}

\* the state before the first run on board b
InitOn(b) ==
  /\ board = b
  /\ updates = <<>>
  /\ created = 0
  /\ run = 1
  /\ today = NoDate
  /\ FreshRun

InitItem == \E b \in ItemBoards : InitOn(b)

\* the steps of one run of the script
RunStep ==
  \/ \E n \in SprintNums : Fetch(n)
  \/ \E t \in Todays : Assess(t)
  \/ Highlight
  \/ \E k \in 1..Len(assessed) : HighlightError(k)
  \/ BuildContext
  \/ CreateOrReuse
  \/ PostUpdate
  \/ GqlError

\* one run of the script on a board with one sprint item
SpecItem == InitItem /\ [][RunStep]_vars


\* the script run again and again on the same board
Next == RunStep \/ NextRun

N_summary_old == <<" ", "S", "P", "R", "I", "N", "T", " ", "S", "u", "m", "m", "a", "r", "y", " ", "-", " ", "2", "0", "2", "5", "-", "1", "1", "-", "1", "0">>
N_login == <<"L", "o", "g", "i", "n", " ", "p", "a", "g", "e">>
N_sprint_review == <<"S", "p", "r", "i", "n", "t", " ", "r", "e", "v", "i", "e", "w", " ", "n", "o", "t", "e", "s">>

\* the kinds of item of the multi-item boards; id is the item's place on the board
KindItem(k, id) ==
  CASE k = 1 -> MkItem(ColsFull, id, N_task, "g_s4", T_Done, T_Released, T_Done, T_Low,
                       P_one, P_one, P_one, TlTo(D_1115))
    [] k = 2 -> MkItem(ColsFull, id, N_login, "g_s4", T_none, T_none, T_Stuck, T_none,
                       P_none, P_none, P_none, NoValue)
    [] k = 3 -> MkItem(ColsFull, id, N_login, "g_s4", T_none, T_none, T_none, T_High,
                       P_one, P_one, P_one, TlTo(D_1122))
    [] k = 4 -> MkItem(ColsFull, id, N_task, "g_s4", T_Done, T_none, T_Working, T_High,
                       P_one, P_one, P_v2, TlTo(D_1115))
    [] k = 5 -> MkItem(ColsFull, id, N_sprint_review, "g_s4", T_none, T_none, T_Done, T_none,
                       P_one, P_empty, P_one, TlTo(D_1202))
    [] k = 6 -> MkItem(ColsFull, id, N_summary_old, "g_s4", T_none, T_none, T_Working, T_none,
                       P_none, P_none, P_none, TlTo(D_1115))
    [] k = 7 -> MkItem(ColsFull, id, N_task, "g_backlog", T_none, T_none, T_Stuck, T_High,
                       P_none, P_none, P_none, TlTo(D_1115))

Kinds == 1..7

MaxItems == 2

\* the boards of 1..MaxItems items
SprintBoards ==
  UNION { { BoardOf(ColsFull, [i \in 1..n |-> KindItem(ks[i], i)]) : ks \in [1..n -> Kinds] } :
          n \in 1..MaxItems }

Init == \E b \in SprintBoards : InitOn(b)

Spec == Init /\ [][Next]_vars


\* the kinds of item of the long boards, which track the dev status only
TopItem(k, id) ==
  CASE k = "stuck" -> MkItem(ColsDevOnly, id, N_login, "g_s4", T_none, T_none, T_Stuck, T_none,
                             P_none, P_none, P_one, NoValue)
    [] k = "done" -> MkItem(ColsDevOnly, id, N_task, "g_s4", T_none, T_none, T_Done, T_none,
                            P_none, P_none, P_one, NoValue)
    [] k = "unassigned" -> MkItem(ColsDevOnly, id, N_task, "g_s4", T_none, T_none, T_Working,
                                  T_none, P_none, P_none, P_empty, NoValue)

MaxTopItems == 12

\* the boards of TopRisksLimit..MaxTopItems items, all stuck but at most two
LongBoards ==
  UNION { { BoardOf(ColsDevOnly,
                    [i \in 1..n |-> TopItem(IF i = a THEN ka ELSE IF i = b THEN kb ELSE "stuck", i)]) :
              a \in 1..n, b \in 1..n, ka \in {"stuck", "done", "unassigned"},
              kb \in {"stuck", "done"} } :
          n \in TopRisksLimit..MaxTopItems }

InitTop == \E b \in LongBoards : InitOn(b)

\* one run of the script on a board with ten sprint items or more
SpecTop == InitTop /\ [][RunStep]_vars


\* ------------------------------------------------------------------ claims
\* What the claims speak of, stated on the state and not through the
\* operators of item_risk and build_context.

HasAssessed == pc \in {"assessed", "highlighted", "context", "summary_item", "done"}
HasContext == pc \in {"context", "summary_item", "done"}

\* the present (non-empty) track statuses of an assessment
StatusSet(r) == {r.product_status, r.design_status, r.dev_status} \ {<<>>}

\* every present track status is a done-alias, and there is one
FullyDone(r) == StatusSet(r) # {} /\ StatusSet(r) \subseteq DONE_STATUS_ALIASES

\* the assessment has a timeline end strictly before today
EndBeforeToday(r) ==
  r.timeline_end # <<>> /\ toordinal(parse_date_text(r.timeline_end)) < toordinal(today)

HasReason(r, reason) == \E j \in 1..Len(r.reasons) : r.reasons[j] = reason

\* C1: item_risk gives the reason "timeline end passed" exactly to the items
\* with a timeline end strictly before today that are not fully done (not
\* every present track status a done-alias); an overdue item with one track
\* done and another not done has the reason.
C1_OverdueIffNotAllDone ==
  HasAssessed =>
    \A i \in 1..Len(assessed) :
      HasReason(assessed[i], R_overdue)
        <=> (EndBeforeToday(assessed[i]) /\ ~FullyDone(assessed[i]))

\* C3: risky is true exactly when the reasons list is not empty.
C3_RiskyIffReasons ==
  HasAssessed => \A i \in 1..Len(assessed) : assessed[i].risky <=> (assessed[i].reasons # <<>>)

C3_Witness ==
  /\ HasAssessed
  /\ \E i \in 1..Len(assessed) : assessed[i].risky /\ Len(assessed[i].reasons) = 1


\* the timeline ends present among the assessments
PresentEnds ==
  {parse_date_text(assessed[i].timeline_end) : i \in {j \in 1..Len(assessed) : assessed[j].timeline_end # <<>>}}

\* the latest of them
LatestEnd == CHOOSE e \in PresentEnds : \A f \in PresentEnds : toordinal(f) <= toordinal(e)

DoneIndexes == {i \in 1..Len(assessed) : FullyDone(assessed[i])}

\* C2: the timeline status is unknown when no item has a timeline end,
\* ongoing when today is strictly before the latest timeline end, and
\* otherwise met exactly when every item is done and there is one, else
\* missed; the sprint end is the latest timeline end.
C2_TimelineStatus ==
  HasContext =>
    /\ context.timeline.sprint_end = (IF PresentEnds = {} THEN <<>> ELSE isoformat(LatestEnd))
    /\ context.timeline.status =
         (IF PresentEnds = {} THEN "unknown"
          ELSE IF toordinal(today) < toordinal(LatestEnd) THEN "ongoing"
          ELSE IF Cardinality(DoneIndexes) = Len(assessed) /\ Len(assessed) > 0 THEN "met"
          ELSE "missed")
    /\ (context.timeline.status = "met" =>
          /\ toordinal(today) >= toordinal(LatestEnd)
          /\ Len(assessed) > 0
          /\ \A i \in 1..Len(assessed) : FullyDone(assessed[i]))

\* the sprint is met on the very day of its end, with two items
C2_Witness ==
  /\ HasContext
  /\ context.timeline.status = "met"
  /\ Len(assessed) = 2
  /\ context.timeline.sprint_end = isoformat(today)

\* the late items as the claim has them
SpecLate(r) == EndBeforeToday(r) /\ ~FullyDone(r)

\* C4: lateItems holds exactly the items with a timeline end strictly
\* before today that are not done, in the order of the items, whatever the
\* sprint-level status.
C4_LateItems ==
  HasContext =>
    LET late == context.timeline.late_items
        want == SelectSeq(assessed, SpecLate)
    IN  /\ Len(late) = Len(want)
        /\ \A j \in 1..Len(late) :
             /\ late[j].id = want[j].id
             /\ late[j].name = want[j].name
             /\ late[j].timeline_end = want[j].timeline_end

\* an item is late while the sprint is ongoing
C4_Witness ==
  /\ HasContext
  /\ context.timeline.status = "ongoing"
  /\ context.timeline.late_items # <<>>

RiskyIndexes == {i \in 1..Len(assessed) : assessed[i].reasons # <<>>}

\* the index in assessed of the j-th risky assessment
NthRisky(j) == CHOOSE i \in RiskyIndexes : Cardinality({k \in RiskyIndexes : k < i}) = j - 1

\* C5: topRisks is the risky assessments in item order cut to the first 10,
\* and stats.risky_items counts every risky item.
C5_TopRisks ==
  HasContext =>
    LET top == context.top_risks
    IN  /\ Len(top) <= 10
        /\ Len(top) = (IF Cardinality(RiskyIndexes) < 10 THEN Cardinality(RiskyIndexes) ELSE 10)
        /\ \A j \in 1..Len(top) : top[j].risky /\ top[j] = assessed[NthRisky(j)]
        /\ context.stats.risky_items = Cardinality(RiskyIndexes)

\* eleven items are risky, one of the first ten items is not
C5_Witness ==
  /\ HasContext
  /\ context.stats.risky_items > 10
  /\ Len(context.top_risks) = 10
  /\ \E i \in 1..10 : ~assessed[i].risky

\* C6: done_all is false for an item whose three track statuses are empty,
\* otherwise true exactly when every non-empty status is a done-alias;
\* stats.done_items is the number of items with done_all.
C6_DoneAll ==
  HasContext =>
    /\ \A i \in 1..Len(assessed) :
         /\ StatusSet(assessed[i]) = {} => ~done_all(assessed[i])
         /\ StatusSet(assessed[i]) # {} =>
              (done_all(assessed[i]) <=> StatusSet(assessed[i]) \subseteq DONE_STATUS_ALIASES)
    /\ context.stats.done_items = Cardinality(DoneIndexes)

\* one item without any status beside one done item
C6_Witness ==
  /\ HasContext
  /\ context.stats.done_items = 1
  /\ \E i \in 1..Len(assessed) : StatusSet(assessed[i]) = {}


\* a bound of a timeline object parsed on its own: the first ten characters
\* of a non-empty string as YYYY-MM-DD, absent on any failure
BoundAlone(x) == IF x.t = "str" /\ x.s # <<>> THEN parse_date_text(x.s) ELSE NoDate

\* C7: parse_timeline_value treats the two bounds independently: a start
\* bound that fails to parse leaves a valid end bound in place, and the
\* other way round; item_risk takes its timeline end from it.
C7_BoundsIndependent ==
  (HasAssessed /\ column_ids.TIMELINE # NoCol) =>
    \A i \in 1..Len(sprint_items) :
      LET v == sprint_items[i].column_values[column_ids.TIMELINE].value
      IN  v.kind = "dict" =>
            LET sd == Or3(v.from, v.startDate, v.start_date)
                ed == Or3(v.to, v.endDate, v.end_date)
            IN  /\ parse_timeline_value(v) = <<BoundAlone(sd), BoundAlone(ed)>>
                /\ assessed[i].timeline_end =
                     (IF BoundAlone(ed) # NoDate THEN isoformat(BoundAlone(ed)) ELSE <<>>)

\* the board has a column titled as the role is
RoleConfigured(key) ==
  \E j \in 1..Len(board.columns) : lower(strip(board.columns[j].title)) \in COLUMN_TITLE_MAP[key]

RoleColumn(key) ==
  board.columns[CHOOSE j \in 1..Len(board.columns) :
                  lower(strip(board.columns[j].title)) \in COLUMN_TITLE_MAP[key]].id

\* the item's parsed assignee list for the role is empty
NoAssignee(item, key) == parse_people(item.column_values[RoleColumn(key)].value) = <<>>

Roles ==
  { <<"PRODUCT_OWNER", R_missing_po>>, <<"DESIGNER", R_missing_designer>>,
    <<"DEVELOPER", R_missing_developer>> }

\* C8: item_risk gives "missing <role>" exactly when the role's column is
\* on the board and the item's assignee list for it is empty; a role the
\* board does not track never gets the reason.
C8_MissingRoles ==
  HasAssessed =>
    \A i \in 1..Len(assessed) : \A role \in Roles :
      HasReason(assessed[i], role[2])
        <=> (RoleConfigured(role[1]) /\ NoAssignee(sprint_items[i], role[1]))

\* the board tracks no designer; the item misses its product owner
C8_Witness ==
  /\ HasAssessed
  /\ ~RoleConfigured("DESIGNER")
  /\ \E i \in 1..Len(assessed) :
       HasReason(assessed[i], R_missing_po) /\ ~HasReason(assessed[i], R_missing_designer)

\* the order in which the predicates are declared
ReasonOrder ==
  << R_blocked, R_missing_po, R_missing_designer, R_missing_developer,
     R_overdue, R_near_due, R_high_near_due >>

RankOf(reason) == CHOOSE k \in 1..Len(ReasonOrder) : ReasonOrder[k] = reason

\* C9: the reasons of an item are reasons of the fixed list, each at most
\* once, in the order of that list.
C9_ReasonOrder ==
  HasAssessed =>
    \A i \in 1..Len(assessed) :
      LET rs == assessed[i].reasons
      IN  /\ \A j \in 1..Len(rs) : \E k \in 1..Len(ReasonOrder) : ReasonOrder[k] = rs[j]
          /\ \A a, b \in 1..Len(rs) : a < b => RankOf(rs[a]) < RankOf(rs[b])

\* every predicate fires on one item
C9_Witness ==
  /\ HasAssessed
  /\ \E i \in 1..Len(assessed) : assessed[i].reasons = ReasonOrder

\* the indexes of the board's summary items of the sprint group
SummaryIndexes ==
  {i \in 1..Len(board.items) :
     /\ board.items[i].group = sprint_group.id
     /\ startswith(lower(strip(board.items[i].name)), S_sprint_summary)}

\* C10: the summary step renames the first summary item of the group and
\* creates none when there is one, and creates exactly one item otherwise;
\* the run then posts exactly one update, to that item; over the runs at
\* most one summary item is created, and no summary item is assessed.
C10_SummaryStep ==
  /\ (pc = "context" /\ pc' = "summary_item") =>
       IF SummaryIndexes # {}
       THEN LET first == CHOOSE i \in SummaryIndexes : \A k \in SummaryIndexes : i <= k
            IN  /\ Len(board'.items) = Len(board.items)
                /\ created' = created
                /\ summary_item_id' = board.items[first].id
                /\ board'.items[first].name = SummaryItemName(today)
                /\ \A k \in 1..Len(board.items) : k # first => board'.items[k] = board.items[k]
       ELSE /\ Len(board'.items) = Len(board.items) + 1
            /\ created' = created + 1
            /\ SubSeq(board'.items, 1, Len(board.items)) = board.items
            /\ board'.items[Len(board'.items)].id = summary_item_id'
            /\ board'.items[Len(board'.items)].group = sprint_group.id
            /\ \A k \in 1..Len(board.items) : board.items[k].id # summary_item_id'
  /\ (pc = "summary_item" /\ pc' = "done") => updates' = Append(updates, summary_item_id)
  /\ (pc' # "done" \/ pc = "done") => updates' = updates
  /\ created' <= 1
  /\ \A i \in 1..Len(assessed') : ~startswith(lower(strip(assessed'[i].name)), S_sprint_summary)

C10_SummaryItem == [][C10_SummaryStep]_vars

\* the second successful run has reused the item the first one created
C10_Witness ==
  /\ pc = "done"
  /\ run = 2
  /\ created = 1
  /\ updates = <<summary_item_id, summary_item_id>>


\* C11: item_risk and build_context agree on lateness: an item has the
\* reason "timeline end passed" exactly when it is in timeline.lateItems of
\* the context built from the same assessments.
C11_LatenessAgrees ==
  HasContext =>
    \A i \in 1..Len(assessed) :
      HasReason(assessed[i], R_overdue)
        <=> (\E j \in 1..Len(context.timeline.late_items) :
               context.timeline.late_items[j].id = assessed[i].id)

====
